---- MODULE Spec2Model ----
(***************************************************************************)
(* The LLM dispatcher of ai-launchpad (src/llm_dispatcher/app.py): the     *)
(* single-shot handler POST /query, the streaming handler POST             *)
(* /query/stream, the provider dispatch and the four streaming adapters,   *)
(* GET /health and GET /models, run against a scripted upstream.           *)
(*                                                                         *)
(* A JSON object is a function from its keys to its values.  A line of a   *)
(* line-oriented body is a record [prefix, kind, obj]: prefix says whether *)
(* the line starts with "data: ", kind what follows the prefix ("empty",   *)
(* "garbage" = not JSON, "sentinel" = [DONE], "array" = JSON that is not   *)
(* an object, "object" = a JSON object, held in obj).  An f-string is the  *)
(* sequence of its pieces.                                                 *)
(***************************************************************************)
EXTENDS Integers, Sequences, FiniteSets, TLC

VARIABLES
    LLM_PROVIDER,    \* the configured provider name (read once at import)
    sdk_client,      \* openai_client / anthropic_client is not None
    request,         \* request.json of the call: the body sent by the caller
    stub,            \* the upstream: what it answers to this call
    http_response,   \* what POST /query returned, NoResponse before it ran
    pc,              \* where the streaming call stands
    pos,             \* native frames the streaming adapter has consumed
    events,          \* the lines the stream generator has yielded so far
    total_tokens,    \* the local counter of stream_vllm / stream_openai
    conn,            \* the upstream connection of the streaming call
    upstream_calls,  \* [route, stream]: upstream requests issued by each call
    escaped,         \* [route, stream]: an exception left the handler
    LLM_API_KEY,     \* the configured credential, None when the variable is unset
    health_status,   \* what GET /health returned, NoResponse before it ran
    models_response, \* what GET /models returned, NoResponse before it ran
    probes,          \* the GET requests /health and /models sent upstream
    client           \* the consumer of src/client/llm_test.py reading the stream

\* The state of GET /health and GET /models
probe_vars == <<LLM_API_KEY, health_status, models_response, probes>>

vars == <<LLM_PROVIDER, sdk_client, request, stub, http_response, pc, pos,
          events, total_tokens, conn, upstream_calls, escaped, probe_vars, client>>

\* Longest scripted upstream stream, in native frames.
MaxFrames == 3

\* Longest scripted upstream stream when every endpoint runs, in native frames.
MaxServiceFrames == 1

\* Frames of an upstream the test client is run against
MaxClientFrames == 2

----------------------------------------------------------------------------
\* Python values

None == "<None>"

EmptyDict == <<>>

Truthy(s) == s # None /\ s # ""

Or(a, b) == IF Truthy(a) THEN a ELSE b

Get(d, k, default) == IF k \in DOMAIN d THEN d[k] ELSE default

TruthyText(d, k) == k \in DOMAIN d /\ Truthy(d[k])

TruthyFlag(d, k) == k \in DOMAIN d /\ d[k] = TRUE

TruthyList(d, k) == k \in DOMAIN d /\ d[k] # <<>>

\* d1.update(d2)
Update(d1, d2) ==
    [k \in DOMAIN d1 \cup DOMAIN d2 |-> IF k \in DOMAIN d2 THEN d2[k] ELSE d1[k]]

\* f"{status_code}"
ToStr(n) ==
    CASE n = 200 -> "200"
      [] n = 404 -> "404"
      [] n = 500 -> "500"
      [] n = 503 -> "503"

RECURSIVE Concat(_)
Concat(texts) ==
    IF texts = <<>> THEN "" ELSE Head(texts) \o Concat(Tail(texts))

Last(s) == s[Len(s)]

IsPrefix(s, t) == Len(s) <= Len(t) /\ SubSeq(t, 1, Len(s)) = s

----------------------------------------------------------------------------
\* Configuration

LLM_MODEL == "gpt-3.5-turbo"

OLLAMA_MODEL == "gemma3n:e2b"

VLLM_MODEL == "facebook/opt-125m"

Providers == {"openai", "anthropic", "ollama", "vllm", "local", "azure", "Ollama"}

SdkProviders == {"openai", "anthropic"}

----------------------------------------------------------------------------
\* Lines and JSON values

Line(prefix, kind, obj) == [prefix |-> prefix, kind |-> kind, obj |-> obj]

\* "data: " + json.dumps(payload): one line of the dispatcher's event stream
SSE(payload) == Line(TRUE, "object", payload)

JObject(d) == [kind |-> "object", obj |-> d]

JArray == [kind |-> "array", obj |-> EmptyDict]

----------------------------------------------------------------------------
\* The upstream: the native frames each backend can put on the wire

OllamaLines ==
    { Line(FALSE, "empty", EmptyDict),
      Line(FALSE, "garbage", EmptyDict),
      Line(FALSE, "array", EmptyDict),
      Line(FALSE, "object", [response |-> "a", done |-> FALSE]),
      Line(FALSE, "object", [response |-> "b"]),
      Line(FALSE, "object", [response |-> "", done |-> FALSE]),
      Line(FALSE, "object", [done |-> TRUE, eval_count |-> 4]),
      Line(FALSE, "object", [error |-> <<"boom">>]) }

VllmLines ==
    { Line(FALSE, "empty", EmptyDict),
      Line(FALSE, "garbage", EmptyDict),
      Line(TRUE, "sentinel", EmptyDict),
      Line(TRUE, "garbage", EmptyDict),
      Line(TRUE, "array", EmptyDict),
      Line(TRUE, "object", [choices |-> << [text |-> "a"] >>]),
      Line(TRUE, "object", [choices |-> << [text |-> "b"] >>]),
      Line(TRUE, "object", [choices |-> << [text |-> ""] >>]),
      Line(TRUE, "object", [error |-> <<"boom">>]) }

OpenaiChunks ==
    { Line(FALSE, "object", [choices |-> << [content |-> "a"] >>]),
      Line(FALSE, "object", [choices |-> << [content |-> "b"] >>]),
      Line(FALSE, "object", [choices |-> << [content |-> None] >>]),
      Line(FALSE, "object", [choices |-> << >>]) }

AnthropicTexts ==
    { Line(FALSE, "object", [text |-> "a"]),
      Line(FALSE, "object", [text |-> "b"]) }

\* The stream of the capital-of-France scenario
ParisFrames ==
    << Line(FALSE, "object", [response |-> "Paris"]),
       Line(FALSE, "object", [response |-> " is"]),
       Line(FALSE, "object", [response |-> " the"]),
       Line(FALSE, "object", [response |-> " capital"]),
       Line(FALSE, "object", [done |-> TRUE, eval_count |-> 4]) >>

SeqsUpTo(S, n) == UNION { [1..k -> S] : k \in 0..n }

LinesFor(p) ==
    CASE p \in {"ollama", "local"} -> OllamaLines
      [] p = "vllm" -> VllmLines
      [] p = "openai" -> OpenaiChunks
      [] p = "anthropic" -> AnthropicTexts
      [] OTHER -> {}

ScriptsFor(p) ==
    SeqsUpTo(LinesFor(p), MaxFrames)
        \cup (IF p \in {"ollama", "local"} THEN {ParisFrames} ELSE {})

StatusCodes == {404, 500}

\* An upstream that does not answer, or answers with an error status
FailStubs ==
    { [open |-> o, code |-> 0, frames |-> <<>>, ending |-> "eof", body |-> "ok"] :
        o \in {"timeout", "error"} }
    \cup
    { [open |-> "status", code |-> c, frames |-> <<>>, ending |-> "eof", body |-> "ok"] :
        c \in StatusCodes }

\* An upstream that answers 200 with a body that is not the expected JSON
BadBodyStubs ==
    { [open |-> "ok", code |-> 200, frames |-> <<>>, ending |-> "eof", body |-> b] :
        b \in {"notjson", "array"} }

StubsFor(p) ==
    FailStubs
    \cup (IF p \in SdkProviders THEN {} ELSE BadBodyStubs)
    \cup { [open |-> "ok", code |-> 200, frames |-> f, ending |-> e, body |-> "ok"] :
             f \in ScriptsFor(p), e \in {"eof", "fail"} }

\* The text a frame of the script carries
FrameText(l) ==
    IF l.kind # "object" THEN ""
    ELSE IF "response" \in DOMAIN l.obj THEN l.obj.response
    ELSE IF "text" \in DOMAIN l.obj THEN l.obj.text
    ELSE IF TruthyList(l.obj, "choices")
         THEN LET c == l.obj.choices[1]
              IN  IF "text" \in DOMAIN c THEN c.text
                  ELSE IF Truthy(c.content) THEN c.content ELSE ""
    ELSE ""

\* The whole answer of the upstream: what it sends when asked not to stream
StubText(s) == Concat([i \in 1..Len(s.frames) |-> FrameText(s.frames[i])])

IsDoneFrame(l) == l.kind = "object" /\ TruthyFlag(l.obj, "done")

\* The fields of the upstream's final frame, which its single-shot body repeats
FinalFields(s) ==
    LET D == { i \in 1..Len(s.frames) : IsDoneFrame(s.frames[i]) }
    IN  IF D = {} THEN EmptyDict
        ELSE s.frames[CHOOSE i \in D : \A j \in D : i <= j].obj

\* str(e) of the exception the transport raises for this upstream
ExcText(s) ==
    CASE s.open = "timeout" -> <<"Read timed out">>
      [] s.open = "status" -> <<"Error code: ", ToStr(s.code)>>
      [] OTHER -> <<"Connection aborted">>

\* response.text of an error answer
ErrorBody == "upstream says no"

\* Frames of the script that carry text
StubTokenCount(s) == Cardinality({ i \in 1..Len(s.frames) : FrameText(s.frames[i]) # "" })

----------------------------------------------------------------------------
\* Single-shot adapters.  Each yields [result, sent]: the value the Python
\* function returns and the upstream requests it issued.

Returned(result, sent) == [result |-> result, sent |-> sent]

ErrorResult(msg) == JObject([error |-> msg])

query_openai(prompt, model) ==
    LET payload == [to |-> "openai", prompt |-> prompt, model |-> Or(model, LLM_MODEL),
                    stream |-> FALSE]
    IN  IF ~sdk_client
        THEN Returned(ErrorResult(<<"OpenAI client not available">>), <<>>)
        ELSE IF stub.open # "ok"
        THEN Returned(ErrorResult(<<"Failed to query OpenAI: ">> \o ExcText(stub)),
                      <<payload>>)
        ELSE Returned(JObject([response |-> StubText(stub),
                               model |-> payload.model,
                               total_tokens |-> StubTokenCount(stub) + 1,
                               prompt_tokens |-> 1,
                               completion_tokens |-> StubTokenCount(stub)]),
                      <<payload>>)

query_anthropic(prompt, model) ==
    LET payload == [to |-> "anthropic", prompt |-> prompt,
                    model |-> Or(model, Or(LLM_MODEL, "claude-3-sonnet-20240229")),
                    stream |-> FALSE]
    IN  IF ~sdk_client
        THEN Returned(ErrorResult(<<"Anthropic client not available">>), <<>>)
        ELSE IF stub.open # "ok"
        THEN Returned(ErrorResult(<<"Failed to query Anthropic: ">> \o ExcText(stub)),
                      <<payload>>)
        ELSE Returned(JObject([response |-> StubText(stub),
                               model |-> payload.model,
                               input_tokens |-> 1,
                               output_tokens |-> StubTokenCount(stub)]),
                      <<payload>>)

OllamaStatusError(code, text) == <<"Ollama returned status ", ToStr(code), ": ", text>>

query_ollama(prompt, model) ==
    LET payload == [to |-> "ollama", prompt |-> prompt, model |-> Or(model, OLLAMA_MODEL),
                    stream |-> FALSE]
        result ==
            CASE stub.open = "timeout" -> ErrorResult(<<"Request to Ollama timed out">>)
              [] stub.open = "error" ->
                    ErrorResult(<<"Failed to query Ollama: ">> \o ExcText(stub))
              [] stub.open = "status" -> ErrorResult(OllamaStatusError(stub.code, ErrorBody))
              [] stub.body = "notjson" ->
                    ErrorResult(<<"Failed to query Ollama: ", "Expecting value">>)
              [] stub.body = "array" -> JArray
              [] OTHER ->
                    JObject(Update(FinalFields(stub), [response |-> StubText(stub)]))
    IN  Returned(result, <<payload>>)

VllmStatusError(code, text) == <<"vLLM returned status ", ToStr(code), ": ", text>>

query_vllm(prompt, model) ==
    LET payload == [to |-> "vllm", prompt |-> prompt, model |-> Or(model, VLLM_MODEL),
                    stream |-> FALSE]
        data == [choices |-> << [text |-> StubText(stub)] >>]
        result ==
            CASE stub.open = "timeout" -> ErrorResult(<<"Request to vLLM timed out">>)
              [] stub.open = "error" ->
                    ErrorResult(<<"Failed to query vLLM: ">> \o ExcText(stub))
              [] stub.open = "status" -> ErrorResult(VllmStatusError(stub.code, ErrorBody))
              [] stub.body = "notjson" ->
                    ErrorResult(<<"Failed to query vLLM: ", "Expecting value">>)
              [] stub.body = "array" ->
                    ErrorResult(<<"Failed to query vLLM: ",
                                  "list indices must be integers or slices, not str">>)
              [] OTHER ->
                    JObject([response |-> data.choices[1].text,
                             model |-> Get(data, "model", Or(model, VLLM_MODEL)),
                             usage |-> Get(data, "usage", EmptyDict),
                             finish_reason |-> Get(data.choices[1], "finish_reason", "stop")])
    IN  Returned(result, <<payload>>)

UnsupportedError(provider) == <<"Unsupported LLM provider: ", provider>>

\* The dispatch without the branch for the alias 'local'
query_llm_provider_no_alias(prompt, model) ==
    CASE LLM_PROVIDER = "openai" -> query_openai(prompt, model)
      [] LLM_PROVIDER = "anthropic" -> query_anthropic(prompt, model)
      [] LLM_PROVIDER = "ollama" -> query_ollama(prompt, model)
      [] LLM_PROVIDER = "vllm" -> query_vllm(prompt, model)
      [] OTHER -> Returned(ErrorResult(UnsupportedError(LLM_PROVIDER)), <<>>)

\* The dispatch that falls back to the vLLM upstream when Ollama fails
query_llm_provider_fallback(prompt, model) ==
    LET first ==
            CASE LLM_PROVIDER = "openai" -> query_openai(prompt, model)
              [] LLM_PROVIDER = "anthropic" -> query_anthropic(prompt, model)
              [] LLM_PROVIDER = "ollama" -> query_ollama(prompt, model)
              [] LLM_PROVIDER = "vllm" -> query_vllm(prompt, model)
              [] LLM_PROVIDER = "local" -> query_ollama(prompt, model)
              [] OTHER -> Returned(ErrorResult(UnsupportedError(LLM_PROVIDER)), <<>>)
        second == query_vllm(prompt, model)
    IN  IF /\ LLM_PROVIDER \in {"ollama", "local"}
           /\ first.result.kind = "object"
           /\ "error" \in DOMAIN first.result.obj
        THEN Returned(second.result, first.sent \o second.sent)
        ELSE first

query_llm_provider(prompt, model) ==
    CASE LLM_PROVIDER = "openai" -> query_openai(prompt, model)
      [] LLM_PROVIDER = "anthropic" -> query_anthropic(prompt, model)
      [] LLM_PROVIDER = "ollama" -> query_ollama(prompt, model)
      [] LLM_PROVIDER = "vllm" -> query_vllm(prompt, model)
      [] LLM_PROVIDER = "local" -> query_ollama(prompt, model)
      [] OTHER -> Returned(ErrorResult(UnsupportedError(LLM_PROVIDER)), <<>>)

----------------------------------------------------------------------------
\* POST /query

NoResponse == [status |-> 0, body |-> EmptyDict]

MissingPrompt(data) == data = EmptyDict \/ "prompt" \notin DOMAIN data

\* The provider-specific metrics query_llm adds to the standard fields
ProviderMetrics(result) ==
    CASE LLM_PROVIDER \in {"ollama", "local"} ->
            [total_duration |-> Get(result, "total_duration", 0),
             load_duration |-> Get(result, "load_duration", 0),
             prompt_eval_duration |-> Get(result, "prompt_eval_duration", 0),
             eval_duration |-> Get(result, "eval_duration", 0),
             eval_count |-> Get(result, "eval_count", 0)]
      [] LLM_PROVIDER = "vllm" ->
            LET usage == Get(result, "usage", EmptyDict)
            IN  [total_tokens |-> Get(usage, "total_tokens", 0),
                 prompt_tokens |-> Get(usage, "prompt_tokens", 0),
                 completion_tokens |-> Get(usage, "completion_tokens", 0),
                 finish_reason |-> Get(result, "finish_reason", "stop")]
      [] LLM_PROVIDER = "openai" ->
            [total_tokens |-> Get(result, "total_tokens", 0),
             prompt_tokens |-> Get(result, "prompt_tokens", 0),
             completion_tokens |-> Get(result, "completion_tokens", 0)]
      [] LLM_PROVIDER = "anthropic" ->
            [input_tokens |-> Get(result, "input_tokens", 0),
             output_tokens |-> Get(result, "output_tokens", 0)]
      [] OTHER -> EmptyDict

StandardResponse(result, model) ==
    Update([response |-> Get(result, "response", ""),
            provider |-> LLM_PROVIDER,
            model |-> Get(result, "model", Or(model, "unknown"))],
           ProviderMetrics(result))

\* The handler with total_tokens kept in a module-level variable that every
\* request resets
query_llm_shared_counter ==
    /\ http_response = NoResponse
    /\ IF MissingPrompt(request)
       THEN /\ http_response' =
                   [status |-> 400, body |-> [error |-> <<"Missing prompt in request body">>]]
            /\ UNCHANGED <<upstream_calls, escaped>>
       ELSE LET model == Get(request, "model", None)
                r == query_llm_provider(request.prompt, model)
            IN  /\ upstream_calls' = [upstream_calls EXCEPT !.route = @ \o r.sent]
                /\ IF r.result.kind # "object"
                   THEN \* 'error' in a list is False; result.get raises AttributeError
                        /\ http_response' =
                               [status |-> 500, body |-> [html |-> "Internal Server Error"]]
                        /\ escaped' = [escaped EXCEPT !.route = TRUE]
                   ELSE /\ http_response' =
                               IF "error" \in DOMAIN r.result.obj
                               THEN [status |-> 500, body |-> r.result.obj]
                               ELSE [status |-> 200,
                                     body |-> StandardResponse(r.result.obj, model)]
                        /\ UNCHANGED escaped
    /\ total_tokens' = 0
    /\ UNCHANGED <<client, probe_vars, LLM_PROVIDER, sdk_client, request, stub, pc, pos, events,
                   conn>>

query_llm ==
    /\ http_response = NoResponse
    /\ IF MissingPrompt(request)
       THEN /\ http_response' =
                   [status |-> 400, body |-> [error |-> <<"Missing prompt in request body">>]]
            /\ UNCHANGED <<upstream_calls, escaped>>
       ELSE LET model == Get(request, "model", None)
                r == query_llm_provider(request.prompt, model)
            IN  /\ upstream_calls' = [upstream_calls EXCEPT !.route = @ \o r.sent]
                /\ IF r.result.kind # "object"
                   THEN \* 'error' in a list is False; result.get raises AttributeError
                        /\ http_response' =
                               [status |-> 500, body |-> [html |-> "Internal Server Error"]]
                        /\ escaped' = [escaped EXCEPT !.route = TRUE]
                   ELSE /\ http_response' =
                               IF "error" \in DOMAIN r.result.obj
                               THEN [status |-> 500, body |-> r.result.obj]
                               ELSE [status |-> 200,
                                     body |-> StandardResponse(r.result.obj, model)]
                        /\ UNCHANGED escaped
    /\ UNCHANGED <<client, probe_vars, LLM_PROVIDER, sdk_client, request, stub, pc, pos, events,
                   total_tokens, conn>>

----------------------------------------------------------------------------
\* Exceptions and the except clauses of the streaming path

NoExc == [type |-> "", text |-> <<>>]

Exc(type, text) == [type |-> type, text |-> text]

\* The exception the transport raises when the request itself fails
OpenExc(s) ==
    Exc(CASE s.open = "timeout" -> "Timeout"
          [] s.open = "status" -> "APIStatusError"
          [] OTHER -> "ConnectionError",
        ExcText(s))

\* The exception iter_lines / the SDK iterator raises when the peer goes away
BrokenExc == Exc("ConnectionError", <<"Connection broken">>)

\* `except <clause>` catches e
Caught(e, clause) ==
    CASE clause = "BaseException" -> TRUE
      [] clause = "Exception" -> e.type # "GeneratorExit"
      [] OTHER -> e.type = clause

\* The except clause with `pass` for a body: the exception is swallowed
stream_except_swallowed(who, e) == <<>>

\* except Exception as e: yield {'error': f'Failed to stream from <who>: {e}'}
stream_except(who, e) ==
    << SSE([error |-> <<"Failed to stream from " \o who \o ": ">> \o e.text]) >>

\* generate(): except Exception as e: yield {'error': f'Stream error: {e}'}
generate_except(e) == << SSE([error |-> <<"Stream error: ">> \o e.text]) >>

\* What raising e inside the try block of adapter `who` leads to
Raise(who, e) ==
    IF Caught(e, "Exception")
    THEN [emit |-> stream_except(who, e), escaped |-> FALSE]
    ELSE IF Caught(e, "Exception")
    THEN [emit |-> generate_except(e), escaped |-> FALSE]
    ELSE [emit |-> <<>>, escaped |-> TRUE]

\* One iteration of an adapter's loop: the lines it yields, whether it leaves
\* the loop, and the exception it raises (NoExc when none)
Iter(emit, brk, exc) == [emit |-> emit, brk |-> brk, exc |-> exc]

----------------------------------------------------------------------------
\* Streaming adapters: the body of each loop

\* The metadata with eval_count read from the field next to it
OllamaMetadata_miskeyed(chunk, model) ==
    [done |-> TRUE,
     model |-> Get(chunk, "model", Or(model, OLLAMA_MODEL)),
     total_duration |-> Get(chunk, "total_duration", 0),
     load_duration |-> Get(chunk, "load_duration", 0),
     prompt_eval_duration |-> Get(chunk, "prompt_eval_duration", 0),
     eval_duration |-> Get(chunk, "eval_duration", 0),
     eval_count |-> Get(chunk, "eval_duration", 0)]

OllamaMetadata(chunk, model) ==
    [done |-> TRUE,
     model |-> Get(chunk, "model", Or(model, OLLAMA_MODEL)),
     total_duration |-> Get(chunk, "total_duration", 0),
     load_duration |-> Get(chunk, "load_duration", 0),
     prompt_eval_duration |-> Get(chunk, "prompt_eval_duration", 0),
     eval_duration |-> Get(chunk, "eval_duration", 0),
     eval_count |-> Get(chunk, "eval_count", 0)]

stream_ollama_line(line, model) ==
    IF line.kind = "empty" THEN Iter(<<>>, FALSE, NoExc)
    ELSE IF line.prefix \/ line.kind \in {"garbage", "sentinel"}
    THEN Iter(<<>>, FALSE, Exc("JSONDecodeError", <<"Expecting value">>))
    ELSE IF line.kind = "array"
    THEN Iter(<<>>, FALSE, Exc("AttributeError", <<"'list' object has no attribute 'get'">>))
    ELSE LET chunk == line.obj
         IN  Iter((IF TruthyText(chunk, "response")
                   THEN << SSE([token |-> chunk.response]) >> ELSE <<>>)
                  \o (IF TruthyFlag(chunk, "done")
                      THEN << SSE(OllamaMetadata(chunk, model)) >> ELSE <<>>),
                  FALSE, NoExc)

\* The loop body reading the chat field 'delta' where completions carry 'text'
stream_vllm_line_delta(line, model) ==
    IF line.kind = "empty" THEN Iter(<<>>, FALSE, NoExc)
    ELSE IF ~line.prefix THEN Iter(<<>>, FALSE, NoExc)
    ELSE IF line.kind = "sentinel" THEN Iter(<<>>, TRUE, NoExc)
    ELSE IF line.kind = "garbage" THEN Iter(<<>>, FALSE, NoExc)
    ELSE IF line.kind = "array"
    THEN Iter(<<>>, FALSE, Exc("AttributeError", <<"'list' object has no attribute 'get'">>))
    ELSE LET chunk == line.obj
         IN  IF TruthyList(chunk, "choices") /\ TruthyText(chunk.choices[1], "delta")
             THEN Iter(<< SSE([token |-> chunk.choices[1].delta]) >>, FALSE, NoExc)
             ELSE Iter(<<>>, FALSE, NoExc)

stream_vllm_line(line, model) ==
    IF line.kind = "empty" THEN Iter(<<>>, FALSE, NoExc)
    ELSE IF ~line.prefix THEN Iter(<<>>, FALSE, NoExc)
    ELSE IF line.kind = "sentinel" THEN Iter(<<>>, TRUE, NoExc)
    ELSE IF line.kind = "garbage" THEN Iter(<<>>, FALSE, NoExc)
    ELSE IF line.kind = "array"
    THEN Iter(<<>>, FALSE, Exc("AttributeError", <<"'list' object has no attribute 'get'">>))
    ELSE LET chunk == line.obj
         IN  IF TruthyList(chunk, "choices") /\ TruthyText(chunk.choices[1], "text")
             THEN Iter(<< SSE([token |-> chunk.choices[1].text]) >>, FALSE, NoExc)
             ELSE Iter(<<>>, FALSE, NoExc)

stream_openai_chunk(chunk, model) ==
    IF chunk.obj.choices = <<>>
    THEN Iter(<<>>, FALSE, Exc("IndexError", <<"list index out of range">>))
    ELSE IF Truthy(chunk.obj.choices[1].content)
    THEN Iter(<< SSE([token |-> chunk.obj.choices[1].content]) >>, FALSE, NoExc)
    ELSE Iter(<<>>, FALSE, NoExc)

stream_anthropic_text(text, model) ==
    Iter(<< SSE([token |-> text.obj.text]) >>, FALSE, NoExc)

\* The final metadata line of the three adapters that send it after the loop
\* The metadata with the counter advanced for every line read, not only for
\* the lines that yield a token
VllmMetadata_counting_lines(model, n) ==
    [done |-> TRUE, model |-> Or(model, VLLM_MODEL), total_tokens |-> pos]

VllmMetadata(model, n) ==
    [done |-> TRUE, model |-> Or(model, VLLM_MODEL), total_tokens |-> n]

OpenaiMetadata(model, n) ==
    [done |-> TRUE, model |-> Or(model, LLM_MODEL), total_tokens |-> n]

AnthropicMetadata(model) ==
    [done |-> TRUE,
     model |-> Or(model, Or(LLM_MODEL, "claude-3-sonnet-20240229")),
     input_tokens |-> 1,
     output_tokens |-> StubTokenCount(stub)]

\* The status message as a plain string, without the status code
OllamaStreamStatusError_plain(code) == <<"Ollama returned status ">>

OllamaStreamStatusError(code) == <<"Ollama returned status ", ToStr(code)>>

VllmStreamStatusError(code) == <<"vLLM returned status ", ToStr(code)>>

----------------------------------------------------------------------------
\* POST /query/stream

Model == Get(request, "model", None)

StreamPayload(to, model) ==
    [to |-> to, prompt |-> request.prompt, model |-> model, stream |-> TRUE]

\* The handler: 400 without a prompt, else a response around generate()
query_llm_stream ==
    /\ pc = "idle"
    /\ pc' = IF MissingPrompt(request) THEN "rejected" ELSE "dispatch"
    /\ UNCHANGED <<client, probe_vars, LLM_PROVIDER, sdk_client, request, stub, http_response, pos, events,
                   total_tokens, conn, upstream_calls, escaped>>

\* stream_llm_provider without its else branch: nothing is yielded
stream_unsupported_silent ==
    /\ pc = "dispatch"
    /\ LLM_PROVIDER \notin {"openai", "anthropic", "ollama", "vllm", "local"}
    /\ pc' = "finished"
    /\ UNCHANGED <<client, probe_vars, LLM_PROVIDER, sdk_client, request, stub, http_response, pos, events,
                   total_tokens, conn, upstream_calls, escaped>>

\* stream_llm_provider, else branch
stream_unsupported ==
    /\ pc = "dispatch"
    /\ LLM_PROVIDER \notin {"openai", "anthropic", "ollama", "vllm", "local"}
    /\ events' = events \o << SSE([error |-> UnsupportedError(LLM_PROVIDER)]) >>
    /\ pc' = "finished"
    /\ UNCHANGED <<client, probe_vars, LLM_PROVIDER, sdk_client, request, stub, http_response, pos,
                   total_tokens, conn, upstream_calls, escaped>>

\* An exception raised inside the try block of adapter `who` ends the generator
Throw(who, e, emitted) ==
    LET r == Raise(who, e)
    IN  /\ events' = events \o emitted \o r.emit
        /\ escaped' = [escaped EXCEPT !.stream = r.escaped]
        /\ pc' = "finished"

\* requests.post(url, json=payload, stream=True, timeout=60) and the status check
OpenHttp(who, payload, status_error) ==
    /\ upstream_calls' = [upstream_calls EXCEPT !.stream = Append(@, payload)]
    /\ CASE stub.open \in {"timeout", "error"} ->
                /\ Throw(who, OpenExc(stub), <<>>)
                /\ conn' = "failed"
         [] stub.open = "status" ->
                /\ events' = events \o << SSE([error |-> status_error]) >>
                /\ pc' = "finished"
                /\ conn' = "open"
                /\ UNCHANGED escaped
         [] OTHER ->
                /\ pc' = "reading"
                /\ conn' = "open"
                /\ UNCHANGED <<events, escaped>>
    /\ UNCHANGED <<client, probe_vars, LLM_PROVIDER, sdk_client, request, stub, http_response, pos,
                   total_tokens>>

\* The SDK call that opens the stream, after the `if not client` guard
OpenSdk(who, payload) ==
    /\ IF ~sdk_client
       THEN /\ events' = events \o << SSE([error |-> <<who \o " client not available">>]) >>
            /\ pc' = "finished"
            /\ UNCHANGED <<conn, upstream_calls, escaped>>
       ELSE /\ upstream_calls' = [upstream_calls EXCEPT !.stream = Append(@, payload)]
            /\ IF stub.open # "ok"
               THEN /\ Throw(who, OpenExc(stub), <<>>)
                    /\ conn' = "failed"
               ELSE /\ pc' = "reading"
                    /\ conn' = "open"
                    /\ UNCHANGED <<events, escaped>>
    /\ UNCHANGED <<client, probe_vars, LLM_PROVIDER, sdk_client, request, stub, http_response, pos,
                   total_tokens>>

\* One turn of `for ... in <upstream>`: `it` is what the loop body does with
\* the next frame, `final` what the adapter yields once the loop is over,
\* `counts` whether the adapter counts its tokens
Turn(who, it, final, counts) ==
    /\ pos < Len(stub.frames)
    /\ pos' = pos + 1
    /\ total_tokens' = IF counts THEN total_tokens + Len(it.emit) ELSE total_tokens
    /\ IF it.exc # NoExc
       THEN Throw(who, it.exc, it.emit)
       ELSE /\ events' = events \o it.emit \o (IF it.brk THEN final ELSE <<>>)
            /\ pc' = IF it.brk THEN "finished" ELSE "reading"
            /\ UNCHANGED escaped
    /\ UNCHANGED <<client, probe_vars, LLM_PROVIDER, sdk_client, request, stub, http_response, conn,
                   upstream_calls>>

\* The upstream has no further frame: it closed cleanly or the connection broke
Exhausted(who, final) ==
    /\ pos = Len(stub.frames)
    /\ IF stub.ending = "eof"
       THEN /\ events' = events \o final
            /\ pc' = "finished"
            /\ conn' = "eof"
            /\ UNCHANGED escaped
       ELSE /\ Throw(who, BrokenExc, <<>>)
            /\ conn' = "failed"
    /\ UNCHANGED <<client, probe_vars, LLM_PROVIDER, sdk_client, request, stub, http_response, pos,
                   total_tokens, upstream_calls>>

NextFrame == stub.frames[pos + 1]

stream_ollama_open ==
    /\ pc = "dispatch"
    /\ LLM_PROVIDER \in {"ollama", "local"}
    /\ OpenHttp("Ollama", StreamPayload("ollama", Or(Model, OLLAMA_MODEL)),
                OllamaStreamStatusError(stub.code))

stream_ollama_next ==
    /\ pc = "reading"
    /\ LLM_PROVIDER \in {"ollama", "local"}
    /\ \/ Turn("Ollama", stream_ollama_line(NextFrame, Model), <<>>, FALSE)
       \/ Exhausted("Ollama", <<>>)

stream_vllm_open ==
    /\ pc = "dispatch"
    /\ LLM_PROVIDER = "vllm"
    /\ OpenHttp("vLLM", StreamPayload("vllm", Or(Model, VLLM_MODEL)),
                VllmStreamStatusError(stub.code))

stream_vllm_next ==
    /\ pc = "reading"
    /\ LLM_PROVIDER = "vllm"
    /\ LET final == << SSE(VllmMetadata(Model, total_tokens)) >>
       IN  \/ Turn("vLLM", stream_vllm_line(NextFrame, Model), final, TRUE)
           \/ Exhausted("vLLM", final)

stream_openai_open ==
    /\ pc = "dispatch"
    /\ LLM_PROVIDER = "openai"
    /\ OpenSdk("OpenAI", StreamPayload("openai", Or(Model, LLM_MODEL)))

stream_openai_next ==
    /\ pc = "reading"
    /\ LLM_PROVIDER = "openai"
    /\ LET final == << SSE(OpenaiMetadata(Model, total_tokens)) >>
       IN  \/ Turn("OpenAI", stream_openai_chunk(NextFrame, Model), final, TRUE)
           \/ Exhausted("OpenAI", final)

stream_anthropic_open ==
    /\ pc = "dispatch"
    /\ LLM_PROVIDER = "anthropic"
    /\ OpenSdk("Anthropic",
               StreamPayload("anthropic",
                             Or(Model, Or(LLM_MODEL, "claude-3-sonnet-20240229"))))

stream_anthropic_next ==
    /\ pc = "reading"
    /\ LLM_PROVIDER = "anthropic"
    /\ LET final == << SSE(AnthropicMetadata(Model)) >>
       IN  \/ Turn("Anthropic", stream_anthropic_text(NextFrame, Model), final, FALSE)
           \/ Exhausted("Anthropic", final)

----------------------------------------------------------------------------
\* GET /health and GET /models.  The upstream answers their GET as it answers
\* the POST of a query: not at all, with an error status, or with 200.

\* The GET request sent to the upstream of adapter `to`
ProbeRequest(to) ==
    [to |-> to, path |-> IF to = "ollama" THEN "/api/tags" ELSE "/v1/models"]

\* try: requests.get(..., timeout=2); "up" if status_code == 200 else "down"
\* except <clause>: "down".  "raise" when the clause does not catch.
ProbeLlm(clause) ==
    IF stub.open \in {"timeout", "error"}
    THEN IF Caught(OpenExc(stub), clause) THEN "down" ELSE "raise"
    ELSE IF stub.open = "status" THEN "down" ELSE "up"

\* The probe guarded by `except requests.exceptions.Timeout:` only
probe_llm_timeout_only == ProbeLlm("Timeout")

\* The probe as written, with a bare `except:`
probe_llm == ProbeLlm("BaseException")

\* The liveness signal taken from the client object instead of the credential
credential_llm_client == IF sdk_client THEN "up" ELSE "down"

\* "up" if LLM_API_KEY else "down"
credential_llm == IF Truthy(LLM_API_KEY) THEN "up" ELSE "down"

\* The overall status with "unknown" counted as a failure too
overall_status_strict(services) ==
    IF \E k \in DOMAIN services : services[k] # "up" THEN "degraded" ELSE "healthy"

\* if any(status == "down" for status in services.values()): "degraded"
overall_status(services) ==
    IF \E k \in DOMAIN services : services[k] = "down" THEN "degraded" ELSE "healthy"

\* The adapter whose upstream health_check probes, None when it probes none
health_probe_target ==
    CASE LLM_PROVIDER \in {"ollama", "local"} -> "ollama"
      [] LLM_PROVIDER = "vllm" -> "vllm"
      [] OTHER -> None

health_check ==
    /\ health_status = NoResponse
    /\ LET llm == CASE LLM_PROVIDER \in {"ollama", "local"} -> probe_llm
                    [] LLM_PROVIDER = "vllm" -> probe_llm
                    [] LLM_PROVIDER \in {"openai", "anthropic"} -> credential_llm
                    [] OTHER -> "unknown"
           services == [api |-> "up", llm |-> llm]
       IN  /\ probes' = IF health_probe_target = None THEN probes
                        ELSE Append(probes, ProbeRequest(health_probe_target))
           /\ health_status' =
                 IF llm = "raise"
                 THEN [status |-> 500, body |-> [html |-> "Internal Server Error"]]
                 ELSE [status |-> 200,
                       body |-> [status |-> overall_status(services),
                                 llm_provider |-> LLM_PROVIDER,
                                 services |-> services]]
    /\ UNCHANGED <<client, LLM_PROVIDER, sdk_client, request, stub, http_response, pc, pos,
                   events, total_tokens, conn, upstream_calls, escaped,
                   LLM_API_KEY, models_response>>

\* The answer of one HTTP branch of list_models
ModelsOverHttp(to, who, default_model) ==
    CASE stub.open \in {"timeout", "error"} ->
            [status |-> 500,
             body |-> [error |-> <<"Failed to list models: ">> \o ExcText(stub)]]
      [] stub.open = "status" ->
            [status |-> 500,
             body |-> [error |-> <<"Failed to fetch models from " \o who>>]]
      [] stub.body = "notjson" ->
            [status |-> 500,
             body |-> [error |-> <<"Failed to list models: ", "Expecting value">>]]
      [] stub.body = "array" ->
            [status |-> 500,
             body |-> [error |-> <<"Failed to list models: ",
                                   "'list' object has no attribute 'get'">>]]
      [] OTHER ->
            [status |-> 200,
             body |-> [provider |-> to, models |-> <<>>, default_model |-> default_model]]

\* The adapter whose upstream list_models asks, None when it asks none
models_target ==
    CASE LLM_PROVIDER \in {"ollama", "local"} -> "ollama"
      [] LLM_PROVIDER = "vllm" -> "vllm"
      [] OTHER -> None

list_models ==
    /\ models_response = NoResponse
    /\ probes' = IF models_target = None THEN probes
                 ELSE Append(probes, ProbeRequest(models_target))
    /\ models_response' =
          CASE LLM_PROVIDER \in {"ollama", "local"} ->
                  ModelsOverHttp("ollama", "Ollama", OLLAMA_MODEL)
            [] LLM_PROVIDER = "vllm" -> ModelsOverHttp("vllm", "vLLM", VLLM_MODEL)
            [] LLM_PROVIDER = "openai" ->
                  [status |-> 200,
                   body |-> [provider |-> "openai",
                             models |-> <<"gpt-4", "gpt-4-turbo", "gpt-3.5-turbo">>,
                             default_model |-> LLM_MODEL]]
            [] LLM_PROVIDER = "anthropic" ->
                  [status |-> 200,
                   body |-> [provider |-> "anthropic",
                             models |-> <<"claude-3-opus-20240229",
                                          "claude-3-sonnet-20240229",
                                          "claude-3-haiku-20240307">>,
                             default_model |-> Or(LLM_MODEL, "claude-3-sonnet-20240229")]]
            [] OTHER ->
                  [status |-> 500, body |-> [error |-> UnsupportedError(LLM_PROVIDER)]]
    /\ UNCHANGED <<client, LLM_PROVIDER, sdk_client, request, stub, http_response, pc, pos,
                   events, total_tokens, conn, upstream_calls, escaped,
                   LLM_API_KEY, health_status>>

----------------------------------------------------------------------------
\* The stream consumer of the client (src/client/llm_test.py).  A text it
\* yields is the sequence of its pieces, as an f-string is.

\* The consumer before its request: nothing read, nothing yielded
ClientIdle ==
    [pc |-> "idle", pos |-> 0, yielded |-> <<>>, metadata |-> EmptyDict,
     verdict |-> None]

\* `"Error:" in piece`, for the pieces of text the model uses
HasErrorMark(piece) ==
    piece \in { "Error: Request failed with status ",
                "\n\nError: ",
                "\n\nError: Request timed out after 60 seconds",
                "\n\nError: Failed to connect to LLM: ",
                "Error: x" }

RECURSIVE Flatten(_)
Flatten(texts) ==
    IF texts = <<>> THEN <<>> ELSE Head(texts) \o Flatten(Tail(texts))

\* render: full_response is the texts yielded, joined; the verdict is
\* st.error when it holds "Error:", st.success otherwise
RenderVerdict(yielded) ==
    LET full_response == Flatten(yielded)
    IN  IF full_response # <<>>
           /\ \E i \in 1..Len(full_response) : HasErrorMark(full_response[i])
        THEN "error" ELSE "success"

\* The generator returns `metadata` and render, on StopIteration, gives its
\* verdict
ClientReturns(read, yielded, metadata) ==
    [pc |-> "returned", pos |-> read, yielded |-> yielded, metadata |-> metadata,
     verdict |-> RenderVerdict(yielded)]

\* except requests.exceptions.Timeout / except Exception as e, around the loop
ClientExcept(e) ==
    IF Caught(e, "Timeout")
    THEN << <<"\n\nError: Request timed out after 60 seconds">> >>
    ELSE << <<"\n\nError: Failed to connect to LLM: ">> \o e.text >>

\* The body of `for line in response.iter_lines()`: the texts it yields,
\* how it leaves the loop ("" when it stays in it), the metadata it stores
ClientLine(line) ==
    LET stay == [yield |-> <<>>, leave |-> "", metadata |-> EmptyDict, exc |-> NoExc]
    IN  IF line.kind = "empty" \/ ~line.prefix THEN stay
        ELSE IF line.kind \in {"garbage", "sentinel"} THEN stay
        ELSE IF line.kind = "array"
        THEN [stay EXCEPT !.leave = "raise",
                          !.exc = Exc("AttributeError",
                                      <<"'list' object has no attribute 'get'">>)]
        ELSE LET chunk == line.obj
             IN  IF "error" \in DOMAIN chunk
                 THEN [stay EXCEPT !.yield = << <<"\n\nError: ">> \o chunk.error >>,
                                   !.leave = "return"]
                 ELSE IF TruthyFlag(chunk, "done")
                 THEN [stay EXCEPT !.leave = "break",
                                   !.metadata = [k \in DOMAIN chunk \ {"done"} |-> chunk[k]]]
                 ELSE IF "token" \in DOMAIN chunk
                 THEN [stay EXCEPT !.yield = << <<chunk.token>> >>]
                 ELSE stay

\* requests.post(url, json={"prompt": prompt}, stream=True, timeout=60) and
\* the status check; the dispatcher may also be out of reach
client_open ==
    /\ client.pc = "idle"
    /\ \/ /\ pc # "idle"
          /\ client' =
                IF pc = "rejected"
                THEN ClientReturns(0, << <<"Error: Request failed with status ",
                                           "400">> >>, EmptyDict)
                ELSE [client EXCEPT !.pc = "reading"]
       \/ /\ pc = "idle"
          /\ \E e \in { Exc("Timeout", <<"Read timed out">>), BrokenExc } :
                client' = ClientReturns(0, ClientExcept(e), EmptyDict)
    /\ UNCHANGED <<LLM_PROVIDER, sdk_client, request, stub, http_response, pc, pos,
                   events, total_tokens, conn, upstream_calls, escaped, probe_vars>>

\* One line of the dispatcher's stream is read
client_next ==
    /\ client.pc = "reading"
    /\ client.pos < Len(events)
    /\ LET r == ClientLine(events[client.pos + 1])
           yielded == client.yielded \o r.yield
       IN  client' =
              CASE r.leave = "" ->
                      [client EXCEPT !.pos = @ + 1, !.yielded = yielded]
                [] r.leave = "raise" ->
                      ClientReturns(client.pos + 1, yielded \o ClientExcept(r.exc),
                                    client.metadata)
                [] OTHER -> ClientReturns(client.pos + 1, yielded, r.metadata)
    /\ UNCHANGED <<LLM_PROVIDER, sdk_client, request, stub, http_response, pc, pos,
                   events, total_tokens, conn, upstream_calls, escaped, probe_vars>>

\* The dispatcher has closed its response and every line of it was read
client_eof ==
    /\ client.pc = "reading"
    /\ pc = "finished"
    /\ client.pos = Len(events)
    /\ client' = ClientReturns(client.pos, client.yielded, client.metadata)
    /\ UNCHANGED <<LLM_PROVIDER, sdk_client, request, stub, http_response, pc, pos,
                   events, total_tokens, conn, upstream_calls, escaped, probe_vars>>

\* The connection to the dispatcher times out or breaks while the consumer
\* waits for a line
client_link_fails ==
    /\ client.pc = "reading"
    /\ client.pos = Len(events)
    /\ pc # "finished"
    /\ \E e \in { Exc("Timeout", <<"Read timed out">>), BrokenExc } :
          client' = ClientReturns(client.pos, client.yielded \o ClientExcept(e),
                                  client.metadata)
    /\ UNCHANGED <<LLM_PROVIDER, sdk_client, request, stub, http_response, pc, pos,
                   events, total_tokens, conn, upstream_calls, escaped, probe_vars>>

----------------------------------------------------------------------------

Requests ==
    { [prompt |-> "q"], [prompt |-> "q", model |-> "m1"], [model |-> "m1"], EmptyDict }

Init ==
    /\ LLM_PROVIDER \in Providers
    /\ sdk_client \in BOOLEAN
    /\ (LLM_PROVIDER \notin SdkProviders => sdk_client = FALSE)
    /\ request \in Requests
    /\ stub \in StubsFor(LLM_PROVIDER)
    /\ (MissingPrompt(request) => stub.frames = <<>>)
    /\ (LLM_PROVIDER \in SdkProviders /\ ~sdk_client => stub.frames = <<>>)
    /\ http_response = NoResponse
    /\ pc = "idle"
    /\ pos = 0
    /\ events = <<>>
    /\ total_tokens = 0
    /\ conn = "none"
    /\ upstream_calls = [route |-> <<>>, stream |-> <<>>]
    /\ escaped = [route |-> FALSE, stream |-> FALSE]
    /\ LLM_API_KEY = (IF LLM_PROVIDER \in SdkProviders THEN "sk-1" ELSE None)
    /\ health_status = NoResponse
    /\ models_response = NoResponse
    /\ probes = <<>>
    /\ client = ClientIdle

Next ==
    \/ query_llm
    \/ query_llm_stream
    \/ stream_unsupported
    \/ stream_ollama_open
    \/ stream_ollama_next
    \/ stream_vllm_open
    \/ stream_vllm_next
    \/ stream_openai_open
    \/ stream_openai_next
    \/ stream_anthropic_open
    \/ stream_anthropic_next

Spec == Init /\ [][Next]_vars

\* The whole service, every endpoint included, against upstreams that stream
\* at most MaxServiceFrames frames
ServiceInit ==
    /\ LLM_PROVIDER \in Providers
    /\ sdk_client \in BOOLEAN
    /\ (LLM_PROVIDER \notin SdkProviders => sdk_client = FALSE)
    /\ LLM_API_KEY \in {None, "", "sk-1"}
    /\ request \in Requests
    /\ stub \in StubsFor(LLM_PROVIDER)
    /\ Len(stub.frames) <= MaxServiceFrames
    /\ (MissingPrompt(request) => stub.frames = <<>>)
    /\ (LLM_PROVIDER \in SdkProviders /\ ~sdk_client => stub.frames = <<>>)
    /\ http_response = NoResponse
    /\ pc = "idle"
    /\ pos = 0
    /\ events = <<>>
    /\ total_tokens = 0
    /\ conn = "none"
    /\ upstream_calls = [route |-> <<>>, stream |-> <<>>]
    /\ escaped = [route |-> FALSE, stream |-> FALSE]
    /\ health_status = NoResponse
    /\ models_response = NoResponse
    /\ probes = <<>>
    /\ client = ClientIdle

ServiceNext ==
    \/ Next
    \/ health_check
    \/ list_models

ServiceSpec == ServiceInit /\ [][ServiceNext]_vars

\* The frames of the upstreams the test client is run against: answers that
\* themselves hold the text "Error:" are among them
ClientLinesFor(p) ==
    CASE p \in {"ollama", "local"} ->
            { Line(FALSE, "garbage", EmptyDict),
              Line(FALSE, "object", [response |-> "a", done |-> FALSE]),
              Line(FALSE, "object", [response |-> "Error: x", done |-> FALSE]),
              Line(FALSE, "object", [done |-> TRUE, eval_count |-> 4]),
              Line(FALSE, "object", [error |-> <<"boom">>]) }
      [] p = "vllm" ->
            { Line(TRUE, "sentinel", EmptyDict),
              Line(TRUE, "object", [choices |-> << [text |-> "a"] >>]),
              Line(TRUE, "object", [choices |-> << [text |-> "Error: x"] >>]),
              Line(TRUE, "object", [error |-> <<"boom">>]) }
      [] p = "openai" ->
            { Line(FALSE, "object", [choices |-> << [content |-> "a"] >>]),
              Line(FALSE, "object", [choices |-> << [content |-> "Error: x"] >>]) }
      [] p = "anthropic" ->
            { Line(FALSE, "object", [text |-> "a"]),
              Line(FALSE, "object", [text |-> "Error: x"]) }
      [] OTHER -> {}

\* The dispatcher and the test client that reads its stream: the client posts
\* {"prompt": prompt} and consumes the lines while the dispatcher produces them
ClientInit ==
    /\ LLM_PROVIDER \in Providers
    /\ sdk_client \in BOOLEAN
    /\ (LLM_PROVIDER \notin SdkProviders => sdk_client = FALSE)
    /\ request = [prompt |-> "q"]
    /\ stub \in FailStubs
                \cup { [open |-> "ok", code |-> 200, frames |-> f, ending |-> e,
                        body |-> "ok"] :
                         f \in SeqsUpTo(ClientLinesFor(LLM_PROVIDER), MaxClientFrames),
                         e \in {"eof", "fail"} }
    /\ (LLM_PROVIDER \in SdkProviders /\ ~sdk_client => stub.frames = <<>>)
    /\ http_response = NoResponse
    /\ pc = "idle"
    /\ pos = 0
    /\ events = <<>>
    /\ total_tokens = 0
    /\ conn = "none"
    /\ upstream_calls = [route |-> <<>>, stream |-> <<>>]
    /\ escaped = [route |-> FALSE, stream |-> FALSE]
    /\ LLM_API_KEY = (IF LLM_PROVIDER \in SdkProviders THEN "sk-1" ELSE None)
    /\ health_status = NoResponse
    /\ models_response = NoResponse
    /\ probes = <<>>
    /\ client = ClientIdle

ClientNext ==
    \/ Next
    \/ client_open
    \/ client_next
    \/ client_eof
    \/ client_link_fails

ClientSpec == ClientInit /\ [][ClientNext]_vars

----------------------------------------------------------------------------
\* Vocabulary of the properties

Supported == {"openai", "anthropic", "ollama", "vllm", "local"}

HttpProviders == {"ollama", "local", "vllm"}

Range(s) == { s[i] : i \in DOMAIN s }

IsToken(e) == "token" \in DOMAIN e.obj

IsDone(e) == TruthyFlag(e.obj, "done")

IsError(e) == "error" \in DOMAIN e.obj

IsTerminal(e) == IsDone(e) \/ IsError(e)

\* The fields a Done line carries besides the done flag
Metrics(e) == [k \in DOMAIN e.obj \ {"done"} |-> e.obj[k]]

TokenTexts(evs) ==
    LET toks == SelectSeq(evs, IsToken)
    IN  [i \in 1..Len(toks) |-> toks[i].obj.token]

HasText(l) == FrameText(l) # ""

NonEmptyTexts(frames) ==
    LET t == SelectSeq(frames, HasText)
    IN  [i \in 1..Len(t) |-> FrameText(t[i])]

Consumed == SubSeq(stub.frames, 1, pos)

\* A frame that carries only an explicit error
IsErrorFrame(l) == l.kind = "object" /\ "error" \in DOMAIN l.obj /\ ~HasText(l)

\* A non-empty frame that is not JSON, or JSON of an unexpected shape
IsMalformed(l) == l.kind \in {"garbage", "array"}

\* The frame by which the upstream says the stream is complete
IsTerminalFrame(l) == IsDoneFrame(l) \/ l.kind = "sentinel"

\* A frame of the expected shape that carries a partial text (possibly empty)
IsTextFrame(l) ==
    /\ l.kind = "object"
    /\ ~IsDoneFrame(l)
    /\ \/ "response" \in DOMAIN l.obj
       \/ "text" \in DOMAIN l.obj
       \/ TruthyList(l.obj, "choices")

Streaming == ~MissingPrompt(request)

----------------------------------------------------------------------------
\* C1: the event sequence of a stream holds at most one terminal event (done
\* or error) and nothing follows it: a terminal event is always the last
\* event emitted so far.
C1_TerminalIsLast ==
    \A i \in 1..Len(events) : IsTerminal(events[i]) => i = Len(events)

\* C2: when the native stream of an HTTP adapter ends cleanly after k text
\* frames and no terminal frame, the stream is the k tokens followed by one
\* Done with empty metrics.
C2_CleanEndGetsDone ==
    ( /\ LLM_PROVIDER \in HttpProviders
      /\ pc = "finished"
      /\ conn = "eof"
      /\ \A i \in 1..Len(stub.frames) :
            IsTextFrame(stub.frames[i]) /\ HasText(stub.frames[i]) )
    => /\ Len(events) = Len(stub.frames) + 1
       /\ TokenTexts(events) = NonEmptyTexts(stub.frames)
       /\ \A i \in 1..Len(stub.frames) : IsToken(events[i])
       /\ IsDone(Last(events))
       /\ Metrics(Last(events)) = EmptyDict

\* C3: once a frame carrying an explicit mid-stream error has been decoded,
\* the stream has ended and its last event is the Failed event for it.
C3_ErrorFrameFails ==
    ( /\ LLM_PROVIDER \in HttpProviders
      /\ pos > 0
      /\ IsErrorFrame(stub.frames[pos])
      /\ \A i \in 1..(pos - 1) : IsTextFrame(stub.frames[i]) )
    => /\ pc = "finished"
       /\ events # <<>>
       /\ IsError(Last(events))

\* C4: reading a malformed frame emits nothing and leaves the stream running.
C4_MalformedSkipped ==
    [][ ( /\ pc = "reading"
          /\ pos' = pos + 1
          /\ IsMalformed(stub.frames[pos']) )
        => (events' = events /\ pc' = "reading") ]_vars

\* C5: when the upstream connection fails before any terminal frame, the
\* stream ends with one Failed event appended to the Token events emitted so
\* far, which stay as they were; events are only ever appended, nothing is
\* emitted after the failure, and no exception leaves the generator.
C5_FailureState ==
    conn = "failed" =>
        /\ pc = "finished"
        /\ ~escaped.stream
        /\ events # <<>>
        /\ IsError(Last(events))
        /\ (\A i \in 1..(Len(events) - 1) : ~IsDone(events[i]))
              => (\A i \in 1..(Len(events) - 1) : IsToken(events[i]))

C5_ConnectionFailure ==
    /\ []C5_FailureState
    /\ [][ /\ IsPrefix(events, events')
           /\ (conn # "failed" /\ conn' = "failed") => Len(events') = Len(events) + 1
           /\ conn = "failed" => events' = events ]_vars

C5_Witness ==
    /\ conn = "failed"
    /\ pos = 2
    /\ Len(events) = 3
    /\ IsToken(events[1])
    /\ IsToken(events[2])
    /\ IsError(events[3])

\* C6: an upstream that answers with a non-200 status makes POST /query
\* return an error whose message carries the status code, and makes the
\* stream consist of one Failed event whose message carries it; the stream
\* holds no Token.
C6_NonOkStatus ==
    stub.open = "status" =>
        /\ upstream_calls.route # <<>> =>
              /\ http_response.status = 500
              /\ "error" \in DOMAIN http_response.body
              /\ ToStr(stub.code) \in Range(http_response.body.error)
        /\ upstream_calls.stream # <<>> =>
              /\ pc = "finished"
              /\ Len(events) = 1
              /\ IsError(events[1])
              /\ ToStr(stub.code) \in Range(events[1].obj.error)
        /\ \A i \in 1..Len(events) : ~IsToken(events[i])

C6_Witness ==
    /\ stub.open = "status"
    /\ stub.code = 404
    /\ LLM_PROVIDER = "ollama"
    /\ upstream_calls.route # <<>>
    /\ upstream_calls.stream # <<>>
    /\ http_response.status = 500
    /\ Len(events) = 1

\* C7: with a provider name that matches no adapter, the single-shot path
\* returns the Unsupported error, the stream is that one error event naming
\* the provider, and no upstream request is made on either path.
C7_Unsupported ==
    LLM_PROVIDER \notin Supported =>
        /\ upstream_calls = [route |-> <<>>, stream |-> <<>>]
        /\ conn = "none"
        /\ "error" \in DOMAIN query_llm_provider("q", None).result.obj
        /\ (http_response # NoResponse /\ Streaming) =>
              /\ http_response.status = 500
              /\ http_response.body.error[1] = "Unsupported LLM provider: "
              /\ LLM_PROVIDER \in Range(http_response.body.error)
        /\ pc # "reading"
        /\ pc # "finished" => events = <<>>
        /\ pc = "finished" =>
              /\ Len(events) = 1
              /\ IsError(events[1])
              /\ events[1].obj.error[1] = "Unsupported LLM provider: "
              /\ LLM_PROVIDER \in Range(events[1].obj.error)

C7_Witness ==
    /\ LLM_PROVIDER = "azure"
    /\ pc = "finished"
    /\ Len(events) = 1
    /\ http_response.status = 500

\* C8: the Token events are, in order, exactly the non-empty partial texts
\* of the frames received before the terminal: no Token follows a terminal
\* event, and at every moment the tokens emitted are the texts of the frames
\* read so far (nothing is held back beyond the frame being decoded).
C8_TokensAreFrameTexts ==
    /\ \A i, j \in 1..Len(events) :
          (i < j /\ IsTerminal(events[i])) => ~IsToken(events[j])
    /\ TokenTexts(events) = NonEmptyTexts(Consumed)

\* An upstream as C9 describes it: it answers both calls, its frames are text
\* frames followed by the terminal frame of its protocol (the end of the
\* iterator for the SDK adapters), and its single-shot answer is their texts.
ConformingStub ==
    /\ Streaming
    /\ LLM_PROVIDER \in Supported
    /\ LLM_PROVIDER \in SdkProviders => sdk_client
    /\ stub.open = "ok"
    /\ stub.body = "ok"
    /\ stub.ending = "eof"
    /\ LET n == Len(stub.frames)
           k == IF LLM_PROVIDER \in HttpProviders THEN n - 1 ELSE n
       IN  /\ LLM_PROVIDER \in HttpProviders => (n >= 1 /\ IsTerminalFrame(stub.frames[n]))
           /\ \A i \in 1..k : IsTextFrame(stub.frames[i])

\* C9: against such an upstream both calls succeed and the Token texts of the
\* stream, concatenated, are the response string POST /query returns.
C9_StreamEqualsSingleShot ==
    ConformingStub =>
        /\ http_response # NoResponse => http_response.status = 200
        /\ pc = "finished" => IsDone(Last(events))
        /\ (http_response # NoResponse /\ pc = "finished") =>
              Concat(TokenTexts(events)) = http_response.body.response

C9_Witness ==
    /\ ConformingStub
    /\ LLM_PROVIDER = "vllm"
    /\ pc = "finished"
    /\ http_response.status = 200
    /\ http_response.body.response = "ab"
    /\ Len(events) = 3

\* The capital-of-France scenario of C10
ParisCase ==
    /\ Streaming
    /\ LLM_PROVIDER \in {"ollama", "local"}
    /\ stub.open = "ok"
    /\ stub.frames = ParisFrames
    /\ stub.ending = "eof"

ParisTokens == <<"Paris", " is", " the", " capital">>

\* The fields POST /query returns besides response, provider and model
RouteMetrics(body) ==
    [k \in DOMAIN body \ {"response", "provider", "model"} |-> body[k]]

\* C10 as stated: the stream is the four tokens and Done({eval_count: 4}),
\* the metrics being exactly that mapping, and POST /query returns the
\* response "Paris is the capital" with metrics {eval_count: 4}.
C10_ParisExactMetrics ==
    ParisCase =>
        /\ pc = "finished" =>
              /\ Len(events) = 5
              /\ \A i \in 1..4 : IsToken(events[i])
              /\ TokenTexts(events) = ParisTokens
              /\ IsDone(events[5])
              /\ Metrics(events[5]) = [eval_count |-> 4]
        /\ http_response # NoResponse =>
              /\ http_response.status = 200
              /\ http_response.body.response = "Paris is the capital"
              /\ http_response.body.provider = LLM_PROVIDER
              /\ RouteMetrics(http_response.body) = [eval_count |-> 4]

ZeroDurations ==
    [total_duration |-> 0, load_duration |-> 0, prompt_eval_duration |-> 0,
     eval_duration |-> 0]

\* C10 as amended: the Done event carries eval_count 4 together with the
\* adapter's other metric fields at their default 0 and the model name, and
\* POST /query returns the response "Paris is the capital" with eval_count 4
\* and the same four duration fields at 0.
C10_ParisDefaultedMetrics ==
    ParisCase =>
        /\ pc = "finished" =>
              /\ Len(events) = 5
              /\ \A i \in 1..4 : IsToken(events[i])
              /\ TokenTexts(events) = ParisTokens
              /\ IsDone(events[5])
              /\ Metrics(events[5]) =
                    Update(ZeroDurations,
                           [eval_count |-> 4, model |-> Or(Model, OLLAMA_MODEL)])
        /\ http_response # NoResponse =>
              /\ http_response.status = 200
              /\ http_response.body.response = "Paris is the capital"
              /\ http_response.body.provider = LLM_PROVIDER
              /\ RouteMetrics(http_response.body) =
                    Update(ZeroDurations, [eval_count |-> 4])

C10_Witness ==
    /\ ParisCase
    /\ LLM_PROVIDER = "local"
    /\ pc = "finished"
    /\ Len(events) = 5
    /\ http_response.status = 200

----------------------------------------------------------------------------
\* GET /health has answered with its JSON body
HealthAnswered == health_status # NoResponse /\ health_status.status = 200

AllUp(services) == \A k \in DOMAIN services : services[k] = "up"

\* C11 as stated: the status health_check returns is "healthy" if and only
\* if every entry of its services map is "up", and "degraded" in every other
\* case, an entry "unknown" included.
C11_HealthyIffAllUp ==
    HealthAnswered =>
        /\ health_status.body.status \in {"healthy", "degraded"}
        /\ health_status.body.status = "healthy" <=> AllUp(health_status.body.services)

\* C11 as amended: the status is "degraded" if and only if some entry of the
\* services map is "down", and "healthy" otherwise; the llm entry of a
\* provider that health_check has no probe for stays "unknown" and leaves the
\* status "healthy".
C11_DegradedIffSomeDown ==
    HealthAnswered =>
        LET services == health_status.body.services
        IN  /\ health_status.body.status \in {"healthy", "degraded"}
            /\ health_status.body.status = "degraded"
                  <=> (\E k \in DOMAIN services : services[k] = "down")
            /\ services.api = "up"
            /\ LLM_PROVIDER \notin Supported <=> services.llm = "unknown"
            /\ LLM_PROVIDER \notin Supported => health_status.body.status = "healthy"

C11_Witness ==
    /\ HealthAnswered
    /\ LLM_PROVIDER = "azure"
    /\ health_status.body.services.llm = "unknown"
    /\ health_status.body.status = "healthy"

\* C12: for ollama, local and vllm, a liveness probe that fails (no answer,
\* an exception, a non-200 status) makes health_check return normally with
\* the llm component "down" and the status "degraded"; health_check never
\* ends in an exception, whatever the probe does.
C12_FailedProbeIsDown ==
    health_status # NoResponse =>
        /\ health_status.status = 200
        /\ (LLM_PROVIDER \in HttpProviders /\ stub.open # "ok") =>
              /\ health_status.body.services.llm = "down"
              /\ health_status.body.status = "degraded"
        /\ (LLM_PROVIDER \in HttpProviders /\ stub.open = "ok") =>
              health_status.body.services.llm = "up"

C12_Witness ==
    /\ HealthAnswered
    /\ LLM_PROVIDER = "vllm"
    /\ stub.open = "error"
    /\ health_status.body.services.llm = "down"
    /\ health_status.body.status = "degraded"

\* C13: for openai and anthropic, health_check sends no probe and reports
\* the llm component "up" exactly when the credential is configured and not
\* empty, "down" otherwise, whether or not the client object was initialised.
C13_CredentialIsLiveness ==
    (LLM_PROVIDER \in SdkProviders /\ health_status # NoResponse) =>
        /\ probes = <<>>
        /\ HealthAnswered
        /\ health_status.body.services.llm \in {"up", "down"}
        /\ health_status.body.services.llm = "up"
              <=> (LLM_API_KEY # None /\ LLM_API_KEY # "")

C13_Witness ==
    /\ HealthAnswered
    /\ LLM_PROVIDER = "openai"
    /\ ~sdk_client
    /\ LLM_API_KEY = "sk-1"
    /\ health_status.body.services.llm = "up"

----------------------------------------------------------------------------
\* POST /query has answered
RouteAnswered == http_response # NoResponse

\* The provider call cannot succeed: no adapter, no client, an upstream that
\* does not answer or answers with an error status or an unusable body
ProviderFails ==
    \/ LLM_PROVIDER \notin Supported
    \/ LLM_PROVIDER \in SdkProviders /\ ~sdk_client
    \/ stub.open # "ok"
    \/ stub.body # "ok"

\* C14: POST /query answers 400 when the body has no prompt, 500 with a body
\* {error: ...} when the provider call yields an error, and 200 with a body
\* holding response, provider and model otherwise; a 200 body has no error
\* field and a 500 body no response field.
C14_ThreeOutcomes ==
    RouteAnswered =>
        /\ http_response.status \in {200, 400, 500}
        /\ http_response.status = 400 <=> MissingPrompt(request)
        /\ http_response.status = 500 <=> (~MissingPrompt(request) /\ ProviderFails)
        /\ http_response.status = 500 =>
              /\ DOMAIN http_response.body = {"error"}
              /\ http_response.body.error # <<>>
        /\ http_response.status = 200 =>
              /\ {"response", "provider", "model"} \subseteq DOMAIN http_response.body
              /\ "error" \notin DOMAIN http_response.body

\* The configured default model of the adapter a provider name selects
DefaultModel(p) ==
    CASE p \in {"ollama", "local"} -> OLLAMA_MODEL
      [] p = "vllm" -> VLLM_MODEL
      [] OTHER -> LLM_MODEL

\* C15: for a supported provider and a query without model, the request sent
\* upstream names the provider's configured default model, and the model
\* field of a successful POST /query is that default (the upstream naming no
\* other model).
C15_DefaultModel ==
    ( /\ LLM_PROVIDER \in Supported
      /\ RouteAnswered
      /\ ~MissingPrompt(request)
      /\ "model" \notin DOMAIN request )
    => /\ \A i \in 1..Len(upstream_calls.route) :
             upstream_calls.route[i].model = DefaultModel(LLM_PROVIDER)
       /\ http_response.status = 200 =>
             http_response.body.model = DefaultModel(LLM_PROVIDER)

\* C16: on the single-shot path every upstream outcome that is not a usable
\* answer (timeout, transport exception, error status, a 200 body of another
\* shape) gives a normalized error, and no exception leaves POST /query.
C16_SingleShotNeverRaises ==
    /\ ~escaped.route
    /\ (RouteAnswered /\ ~MissingPrompt(request) /\ (stub.open # "ok" \/ stub.body # "ok")) =>
          /\ http_response.status = 500
          /\ "error" \in DOMAIN http_response.body

----------------------------------------------------------------------------
\* The streaming call run on its own: the lines generate() yields, from the
\* first to the last, when nothing else runs in the process

AdapterName ==
    CASE LLM_PROVIDER \in {"ollama", "local"} -> "Ollama"
      [] LLM_PROVIDER = "vllm" -> "vLLM"
      [] LLM_PROVIDER = "openai" -> "OpenAI"
      [] OTHER -> "Anthropic"

LoopBody(frame) ==
    CASE LLM_PROVIDER \in {"ollama", "local"} -> stream_ollama_line(frame, Model)
      [] LLM_PROVIDER = "vllm" -> stream_vllm_line(frame, Model)
      [] LLM_PROVIDER = "openai" -> stream_openai_chunk(frame, Model)
      [] OTHER -> stream_anthropic_text(frame, Model)

\* What the adapter yields after its loop, having counted n tokens
AfterLoop(n) ==
    CASE LLM_PROVIDER \in {"ollama", "local"} -> <<>>
      [] LLM_PROVIDER = "vllm" -> << SSE(VllmMetadata(Model, n)) >>
      [] LLM_PROVIDER = "openai" -> << SSE(OpenaiMetadata(Model, n)) >>
      [] OTHER -> << SSE(AnthropicMetadata(Model)) >>

\* The lines yielded from frame i on, n tokens having been yielded before
RECURSIVE RelayFrom(_, _)
RelayFrom(i, n) ==
    IF i > Len(stub.frames)
    THEN IF stub.ending = "eof" THEN AfterLoop(n)
         ELSE Raise(AdapterName, BrokenExc).emit
    ELSE LET it == LoopBody(stub.frames[i])
         IN  IF it.exc # NoExc THEN it.emit \o Raise(AdapterName, it.exc).emit
             ELSE IF it.brk THEN it.emit \o AfterLoop(n + Len(it.emit))
             ELSE it.emit \o RelayFrom(i + 1, n + Len(it.emit))

StreamAlone ==
    IF MissingPrompt(request) THEN <<>>
    ELSE IF LLM_PROVIDER \notin {"openai", "anthropic", "ollama", "vllm", "local"}
    THEN << SSE([error |-> UnsupportedError(LLM_PROVIDER)]) >>
    ELSE IF LLM_PROVIDER \in SdkProviders /\ ~sdk_client
    THEN << SSE([error |-> <<AdapterName \o " client not available">>]) >>
    ELSE IF stub.open = "status" /\ LLM_PROVIDER \notin SdkProviders
    THEN << SSE([error |-> IF LLM_PROVIDER = "vllm"
                           THEN VllmStreamStatusError(stub.code)
                           ELSE OllamaStreamStatusError(stub.code)]) >>
    ELSE IF stub.open # "ok" THEN Raise(AdapterName, OpenExc(stub)).emit
    ELSE RelayFrom(1, 0)

\* The state of the streaming call, and the state of the single-shot call
StreamCallState ==
    <<pc, pos, events, total_tokens, conn, upstream_calls.stream, escaped.stream>>

RouteCallState == <<http_response, upstream_calls.route, escaped.route>>

\* C17: calls that run interleaved are independent.  The event sequence of
\* the streaming call is the one it yields running alone against its
\* upstream, whenever the single-shot call ran in between; a step of one
\* call leaves the state of the other call as it was; an answer once given
\* is not changed; and no step changes the configuration (provider, client,
\* credential) or the upstream another call will read.
C17_AtEveryMoment ==
    /\ IsPrefix(events, StreamAlone)
    /\ pc \in {"finished", "rejected"} => events = StreamAlone

----------------------------------------------------------------------------
\* The consumer of the stream goes away

\* The generator is suspended at a yield of its loop: the frame it read last
\* made it yield
AtYield == pc = "reading" /\ pos > 0 /\ LoopBody(stub.frames[pos]).emit # <<>>

\* What raising GeneratorExit at that yield leaves of the upstream connection.
\* stream_anthropic holds its stream in a `with` block, whose exit closes it.
\* The other adapters have no with, finally or close(): nothing in the code
\* closes `response` / `stream`, which is left to the finalizer of the
\* abandoned object, run at once, later or never.
ConnAfterClose ==
    IF LLM_PROVIDER = "anthropic" THEN {"closed"} ELSE {"closed", "open"}

\* The server calls close() on generate(): GeneratorExit is raised at the
\* yield, which `except Exception` does not catch
consumer_gone ==
    /\ AtYield
    /\ LET e == Exc("GeneratorExit", <<>>)
       IN  events' = events \o (IF Caught(e, "Exception")
                                THEN stream_except(AdapterName, e) ELSE <<>>)
    /\ pc' = "cancelled"
    /\ conn' \in ConnAfterClose
    /\ UNCHANGED <<client, probe_vars, LLM_PROVIDER, sdk_client, request, stub, http_response, pos,
                   total_tokens, upstream_calls, escaped>>

CancelNext ==
    \/ Next
    \/ consumer_gone

CancelSpec == Init /\ [][CancelNext]_vars

\* C18: when the consumer goes away before a terminal event, the call reads
\* no further frame and emits no further event (no Failed event for the
\* cancellation), and it releases the upstream connection it opened: once
\* the consumer is gone the call holds no open connection.
C18_CancelReleases ==
    (pc = "cancelled" /\ \A i \in 1..Len(events) : ~IsTerminal(events[i])) =>
        /\ \A i \in 1..Len(events) : IsToken(events[i])
        /\ TokenTexts(events) = NonEmptyTexts(Consumed)
        /\ conn # "open"

----------------------------------------------------------------------------
\* The upstream a provider name is bound to
UpstreamOf(p) == IF p = "local" THEN "ollama" ELSE p

\* C19: a call sends at most one request, to the upstream of the configured
\* provider; when that upstream fails (no answer, transport error, error
\* status, a connection broken in mid-stream) the request is not sent again,
\* nor to another upstream, and the caller receives the failure.
C19_OneRequestNoRetry ==
    /\ Len(upstream_calls.route) <= 1
    /\ Len(upstream_calls.stream) <= 1
    /\ \A i \in 1..Len(upstream_calls.route) :
          upstream_calls.route[i].to = UpstreamOf(LLM_PROVIDER)
    /\ \A i \in 1..Len(upstream_calls.stream) :
          upstream_calls.stream[i].to = UpstreamOf(LLM_PROVIDER)
    /\ (stub.open # "ok" /\ upstream_calls.route # <<>>) =>
          /\ http_response.status = 500
          /\ "error" \in DOMAIN http_response.body
    /\ (stub.open # "ok" /\ upstream_calls.stream # <<>>) =>
          /\ pc = "finished"
          /\ Len(events) = 1
          /\ IsError(events[1])
    /\ conn = "failed" =>
          /\ pc = "finished"
          /\ IsError(Last(events))
          /\ Len(SelectSeq(events, IsError)) = 1

C19_Witness ==
    /\ LLM_PROVIDER = "local"
    /\ stub.open = "timeout"
    /\ Len(upstream_calls.route) = 1
    /\ Len(upstream_calls.stream) = 1
    /\ upstream_calls.route[1].to = "ollama"
    /\ http_response.status = 500
    /\ pc = "finished"

----------------------------------------------------------------------------
\* The adapter a call was seen to use: the upstream its request went to, or
\* the adapter whose own error it answered with; "none" for the error of the
\* dispatch itself
KindOf(sent, error) ==
    IF sent # <<>> THEN sent[1].to
    ELSE IF error = UnsupportedError(LLM_PROVIDER) THEN "none"
    ELSE IF error = <<"OpenAI client not available">> THEN "openai"
    ELSE IF error = <<"Anthropic client not available">> THEN "anthropic"
    ELSE "other"

RouteKind ==
    KindOf(upstream_calls.route, Get(http_response.body, "error", <<>>))

StreamKind ==
    KindOf(upstream_calls.stream,
           IF events = <<>> THEN <<>> ELSE Get(events[1].obj, "error", <<>>))

\* C20: the single-shot and the streaming dispatch select the same adapter
\* for every provider name, none for both when the name is unsupported; the
\* alias 'local' selects the Ollama adapter on both paths, and health_check
\* and list_models ask the Ollama upstream for it.
C20_SameAdapterOnBothPaths ==
    /\ (RouteAnswered /\ ~MissingPrompt(request)) =>
          /\ RouteKind = (IF LLM_PROVIDER \in Supported
                          THEN UpstreamOf(LLM_PROVIDER) ELSE "none")
          /\ RouteKind = "none" <=> LLM_PROVIDER \in {"azure", "Ollama"}
    /\ pc \in {"reading", "finished"} =>
          /\ StreamKind = (IF LLM_PROVIDER \in Supported
                           THEN UpstreamOf(LLM_PROVIDER) ELSE "none")
          /\ (RouteAnswered /\ ~MissingPrompt(request)) => RouteKind = StreamKind
    /\ \A i \in 1..Len(probes) :
          /\ LLM_PROVIDER \in HttpProviders
          /\ probes[i].to = UpstreamOf(LLM_PROVIDER)
    /\ (LLM_PROVIDER \in HttpProviders /\ health_status # NoResponse) =>
          /\ probes # <<>>
          /\ health_status.body.services.llm \in {"up", "down"}
    /\ (LLM_PROVIDER \in HttpProviders /\ models_response # NoResponse) =>
          /\ probes # <<>>
          /\ models_response.status = 200 =>
                models_response.body.provider = UpstreamOf(LLM_PROVIDER)
    /\ models_response # NoResponse =>
          ("error" \in DOMAIN models_response.body
              /\ models_response.body.error = UnsupportedError(LLM_PROVIDER))
            <=> LLM_PROVIDER \notin Supported

C20_Witness ==
    /\ LLM_PROVIDER = "local"
    /\ RouteAnswered
    /\ pc = "finished"
    /\ RouteKind = "ollama"
    /\ StreamKind = "ollama"
    /\ Len(probes) = 2
    /\ models_response.status = 200
    /\ models_response.body.provider = "ollama"
    /\ health_status.body.services.llm = "up"

----------------------------------------------------------------------------
\* Token events among the first n events
TokensBefore(n) == Cardinality({ j \in 1..(n - 1) : IsToken(events[j]) })

\* C21: in the vllm and openai streaming adapters, a Done event carries as
\* total_tokens the number of Token events emitted before it in the same
\* stream, 0 when there are none, whatever frames were skipped on the way.
C21_TotalTokensCountsTokens ==
    LLM_PROVIDER \in {"vllm", "openai"} =>
        /\ total_tokens = TokensBefore(Len(events) + 1)
        /\ \A i \in 1..Len(events) :
              IsDone(events[i]) =>
                 /\ "total_tokens" \in DOMAIN events[i].obj
                 /\ events[i].obj.total_tokens = TokensBefore(i)

C21_Witness ==
    /\ LLM_PROVIDER = "vllm"
    /\ pc = "finished"
    /\ pos = 3
    /\ \E i \in 1..3 : stub.frames[i].kind = "garbage"
    /\ \E i \in 1..3 : stub.frames[i].kind = "object" /\ FrameText(stub.frames[i]) = ""
    /\ Len(events) = 2
    /\ IsToken(events[1])
    /\ IsDone(events[2])
    /\ events[2].obj.total_tokens = 1

----------------------------------------------------------------------------
\* The lines of the dispatcher's stream the test client has read
ClientRead == SubSeq(events, 1, client.pos)

\* The Token texts among the lines read, as the texts the client yields
TokensRead ==
    LET t == TokenTexts(ClientRead) IN [i \in 1..Len(t) |-> <<t[i]>>]

\* The consumer yields the Token texts in order and stops reading at the
\* first terminal event; after a done it yields nothing more and returns the
\* event's fields minus 'done'; after an error it yields one error text and
\* returns empty metadata
C22_ConsumerFollowsStream ==
    /\ client.pc = "reading" =>
          /\ \A i \in 1..client.pos : ~IsTerminal(events[i])
          /\ client.yielded = TokensRead
          /\ client.metadata = EmptyDict
    /\ (client.pc = "returned" /\ client.pos > 0) =>
          /\ \A i \in 1..(client.pos - 1) : ~IsTerminal(events[i])
          /\ IsDone(Last(ClientRead)) =>
                /\ client.yielded = TokensRead
                /\ client.metadata = Metrics(Last(ClientRead))
          /\ (IsError(Last(ClientRead)) /\ ~IsDone(Last(ClientRead))) =>
                /\ client.yielded
                     = TokensRead \o << <<"\n\nError: ">> \o Last(ClientRead).obj.error >>
                /\ client.metadata = EmptyDict

\* The verdict render shows agrees with the terminal event received: error
\* after an error event, success after a done event
C22_VerdictFollowsTerminal ==
    (client.pc = "returned" /\ client.pos > 0) =>
        /\ IsError(Last(ClientRead)) => client.verdict = "error"
        /\ (IsDone(Last(ClientRead)) /\ ~IsError(Last(ClientRead))) =>
              client.verdict = "success"

\* C22: query_llm_stream yields the Token texts of the dispatcher's stream in
\* order and stops at the first terminal event (done: nothing more is
\* yielded and the event's fields minus 'done' are the metadata; error: one
\* error text and empty metadata), and the verdict render shows agrees with
\* the terminal event received, whatever the token texts were.
C22_StreamConsumer ==
    /\ C22_ConsumerFollowsStream
    /\ C22_VerdictFollowsTerminal

====
